---- MODULE Spec2Model ----
(***************************************************************************)
(* The gesture-to-parameter control loop of ARCubeController               *)
(* (AR-Hand-Gesture-3D-Cube.py): role assignment, palm openness, target    *)
(* computation and exponential smoothing, one process_hands call per       *)
(* iteration of main's loop.                                               *)
(*                                                                         *)
(* Numbers.  The controller computes in Python floats (IEEE-754 doubles):  *)
(* every arithmetic result is rounded to the nearest representable value.  *)
(* The model keeps that finite resolution with fixed-point numbers:        *)
(*   positions and angles  in 1/Unit       (hundredths),                   *)
(*   average distance      in 1/AvgUnit    (1/500),                        *)
(*   palm openness         in 1/OpenUnit   (1/150),                        *)
(*   scale                 in 1/ScaleUnit  (1/400),                        *)
(* and rounds every quotient and square root to the nearest grid point,    *)
(* ties to even, as the float unit does.  The units are chosen so that the *)
(* linear mappings of the source are exact; only np.sqrt and the product   *)
(* (target - current) * factor of smooth_value round.                      *)
(***************************************************************************)
EXTENDS Integers, Sequences, FiniteSets

VARIABLES scale, target_scale, rotation_x, rotation_y,
          target_rotation_x, target_rotation_y,
          control_hand, rotation_hand,
          results, pc, frames, tick

\* scale .. rotation_hand are the controller's fields.  results is the
\* detector's output for the frame processed last, pc tells whether main's
\* loop still runs or an exception ended it, frames counts the frames in
\* which the detector was free to report anything (up to MaxFrames), and
\* tick is the parity of the loop iterations, so that a processed frame is
\* a step even when it changes no field.
vars == <<scale, target_scale, rotation_x, rotation_y,
          target_rotation_x, target_rotation_y,
          control_hand, rotation_hand, results, pc, frames, tick>>

numerics == <<scale, target_scale, rotation_x, rotation_y,
              target_rotation_x, target_rotation_y>>

(***************************************************************************)
(* Bounds and units                                                        *)
(***************************************************************************)
\* Frames in which the detector may report anything; afterwards it reports
\* no hands (the hands are lost) and frames keep being processed.
MaxFrames == 2

Unit == 10 * 10
AvgUnit == 5 * Unit
ScaleUnit == 4 * Unit

Abs(a) == IF a < 0 THEN -a ELSE a

Max(a, b) == IF a > b THEN a ELSE b

Min(a, b) == IF a < b THEN a ELSE b

\* a / b rounded to the nearest integer, ties to even (b > 0).
RoundDiv(a, b) ==
    LET q == a \div b
        r == a % b
    IN  IF 2 * r < b THEN q
        ELSE IF 2 * r > b THEN q + 1
        ELSE IF q % 2 = 0 THEN q ELSE q + 1

\* The integer part of the square root of n.
RECURSIVE FloorSqrt(_)
FloorSqrt(n) ==
    IF n < 2 THEN n
    ELSE LET s == 2 * FloorSqrt(n \div 4)
         IN  IF (s + 1) * (s + 1) <= n THEN s + 1 ELSE s

\* np.sqrt, rounded to the nearest grid point.
Sqrt(n) ==
    LET f == FloorSqrt(n)
    IN  IF n - f * f <= f THEN f ELSE f + 1

(***************************************************************************)
(* Configuration set by __init__                                           *)
(***************************************************************************)
smooth_factor == [num |-> 15, den |-> 100]

rotation_x_sensitivity == 180

rotation_y_sensitivity == 360

scale_min == ScaleUnit \div 2

scale_max == 5 * ScaleUnit

min_distance == (10 * AvgUnit) \div 100

max_distance == (40 * AvgUnit) \div 100

OpenUnit == max_distance - min_distance

None == "None"

(***************************************************************************)
(* The landmark source: per frame a list of (landmarks, handedness) pairs. *)
(* A landmark list is a sequence of points; Python index i is TLA+ index   *)
(* i + 1.                                                                  *)
(***************************************************************************)
Pt(px, py) == [x |-> px, y |-> py]

FingertipIdx == <<4, 8, 12, 16, 20>>

\* A hand of n keypoints: the wrist and joints at `wrist`, the k-th
\* fingertip at wrist + offs[k].
Landmarks(n, wrist, offs) ==
    [i \in 1..n |->
        IF \E k \in 1..5 : FingertipIdx[k] = i - 1
        THEN LET k == CHOOSE k \in 1..5 : FingertipIdx[k] = i - 1
             IN  Pt(wrist.x + offs[k].x, wrist.y + offs[k].y)
        ELSE wrist]

All(o) == <<o, o, o, o, o>>

\* The detector's keypoint topology: indices 0..20, the pinky tip being the last.
Topology == FingertipIdx[5] + 1

HalfOpen == Landmarks(Topology, Pt(50, 50), All(Pt(15, -20)))

Fist == Landmarks(Topology, Pt(50, 50), All(Pt(3, -4)))

Spread == Landmarks(Topology, Pt(50, 80), All(Pt(-27, -36)))

Mixed == Landmarks(Topology, Pt(40, 60),
                   <<Pt(10, -10), Pt(0, -20), Pt(0, -25), Pt(5, -20), Pt(-10, -15)>>)

AtRight == Landmarks(Topology, Pt(75, 50), All(Pt(15, -20)))

AtLow == Landmarks(Topology, Pt(20, 90), All(Pt(3, -4)))

TooFew == Landmarks(5, Pt(20, 90), All(Pt(-27, -36)))

TooMany == Landmarks(Topology + 1, Pt(20, 90), All(Pt(-27, -36)))

Empty == Landmarks(0, Pt(0, 0), All(Pt(0, 0)))

\* The detector hands out a reference to each landmark container; the model
\* names the container and looks its contents up.
landmark(name) ==
    CASE name = "HalfOpen" -> HalfOpen
      [] name = "Fist" -> Fist
      [] name = "Spread" -> Spread
      [] name = "Mixed" -> Mixed
      [] name = "AtRight" -> AtRight
      [] name = "AtLow" -> AtLow
      [] name = "TooFew" -> TooFew
      [] name = "TooMany" -> TooMany
      [] name = "Empty" -> Empty

\* One pair of the zip loop.  The label is the detector's classification;
\* the code compares it with "Left" and "Right" and skips any other.
Hand(l, name) == [label |-> l, hand_landmarks |-> name]

Hands ==
    {Hand("Left", n) : n \in {"HalfOpen", "Fist", "Spread", "Mixed", "TooFew", "TooMany", "Empty"}}
    \cup {Hand("Right", n) : n \in {"AtRight", "AtLow", "TooFew", "TooMany", "Empty"}}
    \cup {Hand("Unknown", "HalfOpen")}

\* max_num_hands = 2
DetectorOutputs ==
    {<<>>} \cup {<<h>> : h \in Hands} \cup {<<h, g>> : h \in Hands, g \in Hands}

(***************************************************************************)
(* Pure functions of the controller                                        *)
(***************************************************************************)
\* hand_landmarks[i] raises IndexError
IndexError(hand_landmarks, i) == i >= Len(hand_landmarks)

At(hand_landmarks, i) == hand_landmarks[i + 1]

palm_faults(hand_landmarks) ==
    \/ IndexError(hand_landmarks, 0)
    \/ \E k \in 1..5 : IndexError(hand_landmarks, FingertipIdx[k])

RECURSIVE total_distance(_, _)
total_distance(hand_landmarks, k) ==
    IF k = 0 THEN 0
    ELSE LET palm_center == At(hand_landmarks, 0)
             tip == At(hand_landmarks, FingertipIdx[k])
             dx == tip.x - palm_center.x
             dy == tip.y - palm_center.y
         IN  total_distance(hand_landmarks, k - 1) + Sqrt(dx * dx + dy * dy)

\* calculate_palm_openness without the clamp of line 83.
calculate_palm_openness_unclamped(hand_landmarks) ==
    LET avg_distance == RoundDiv(total_distance(hand_landmarks, 5) * AvgUnit,
                                 Len(FingertipIdx) * Unit)
    IN  RoundDiv((avg_distance - min_distance) * OpenUnit,
                 max_distance - min_distance)

\* openness in 1/OpenUnit
calculate_palm_openness(hand_landmarks) ==
    LET avg_distance == RoundDiv(total_distance(hand_landmarks, 5) * AvgUnit,
                                 Len(FingertipIdx) * Unit)
        openness == RoundDiv((avg_distance - min_distance) * OpenUnit,
                             max_distance - min_distance)
    IN  Max(0, Min(OpenUnit, openness))

\* smooth_value stepping away from the target.
smooth_value_away(current, target, factor) ==
    current - RoundDiv((target - current) * factor.num, factor.den)

smooth_value(current, target, factor) ==
    current + RoundDiv((target - current) * factor.num, factor.den)

get_hand_position(hand_landmarks) ==
    LET wrist == At(hand_landmarks, 0) IN Pt(wrist.x, wrist.y)

\* the new (target_rotation_x, target_rotation_y): degrees in 1/Unit from a
\* position in 1/Unit
update_rotation_from_hand(hand_landmarks) ==
    LET p == get_hand_position(hand_landmarks)
    IN  [x |-> (Unit \div 2 - p.y) * rotation_x_sensitivity,
         y |-> (p.x - Unit \div 2) * rotation_y_sensitivity]

\* update_scale_from_palm mapping openness onto scale_max instead of the range.
update_scale_full_max(hand_landmarks) ==
    LET openness == calculate_palm_openness(hand_landmarks)
    IN  scale_min + RoundDiv(openness * scale_max, OpenUnit)

\* the new target_scale
update_scale_from_palm(hand_landmarks) ==
    LET openness == calculate_palm_openness(hand_landmarks)
    IN  scale_min + RoundDiv(openness * (scale_max - scale_min), OpenUnit)

(***************************************************************************)
(* process_hands                                                           *)
(***************************************************************************)
\* The last hand of the zip loop carrying `label`, or None.
LastLabelled(res, label) ==
    LET idx == {i \in 1..Len(res) : res[i].label = label}
    IN  IF idx = {} THEN [some |-> FALSE, landmark |-> <<>>]
        ELSE [some |-> TRUE,
              landmark |-> landmark(res[CHOOSE i \in idx : \A j \in idx : j <= i].hand_landmarks)]

left_hand(res) == LastLabelled(res, "Left")

right_hand(res) == LastLabelled(res, "Right")

\* Python truth of `left_hand`: not None and not an empty container.
Truthy(h) == h.some /\ Len(h.landmark) > 0

\* The IndexError leaves process_hands and main: no handler catches it.
Raise ==
    /\ pc' = "crashed"
    /\ UNCHANGED numerics

\* Smoothing done before the targets of this frame are stored.
SmoothingBeforeUpdate(ts, tx, ty) ==
    /\ target_scale' = ts
    /\ target_rotation_x' = tx
    /\ target_rotation_y' = ty
    /\ scale' = smooth_value(scale, target_scale, smooth_factor)
    /\ rotation_x' = smooth_value(rotation_x, target_rotation_x, smooth_factor)
    /\ rotation_y' = smooth_value(rotation_y, target_rotation_y, smooth_factor)
    /\ pc' = pc

\* Lines 166-169, toward the targets of this frame.
Smoothing(ts, tx, ty) ==
    /\ target_scale' = ts
    /\ target_rotation_x' = tx
    /\ target_rotation_y' = ty
    /\ scale' = smooth_value(scale, ts, smooth_factor)
    /\ rotation_x' = smooth_value(rotation_x, tx, smooth_factor)
    /\ rotation_y' = smooth_value(rotation_y, ty, smooth_factor)
    /\ pc' = pc

\* BothHands with the two updates in the other order: the rotation targets
\* are stored before the palm lookup faults.
BothHandsRotationFirst(res) ==
    /\ res # <<>>
    /\ Truthy(left_hand(res)) /\ Truthy(right_hand(res))
    /\ control_hand' = "left"
    /\ rotation_hand' = "right"
    /\ LET r == update_rotation_from_hand(right_hand(res).landmark)
       IN  IF palm_faults(left_hand(res).landmark)
           THEN /\ pc' = "crashed"
                /\ target_rotation_x' = r.x
                /\ target_rotation_y' = r.y
                /\ UNCHANGED <<scale, target_scale, rotation_x, rotation_y>>
           ELSE Smoothing(update_scale_from_palm(left_hand(res).landmark), r.x, r.y)

BothHands(res) ==
    /\ res # <<>>
    /\ Truthy(left_hand(res)) /\ Truthy(right_hand(res))
    /\ control_hand' = "left"
    /\ rotation_hand' = "right"
    /\ IF palm_faults(left_hand(res).landmark)
       THEN Raise
       ELSE LET r == update_rotation_from_hand(right_hand(res).landmark)
            IN  Smoothing(update_scale_from_palm(left_hand(res).landmark), r.x, r.y)

\* OnlyLeft without line 152: the rotation role of an earlier frame stays.
OnlyLeftKeepsRotationRole(res) ==
    /\ res # <<>>
    /\ Truthy(left_hand(res)) /\ ~Truthy(right_hand(res))
    /\ control_hand' = "left"
    /\ UNCHANGED rotation_hand
    /\ IF palm_faults(left_hand(res).landmark)
       THEN Raise
       ELSE Smoothing(update_scale_from_palm(left_hand(res).landmark),
                      target_rotation_x, target_rotation_y)

OnlyLeft(res) ==
    /\ res # <<>>
    /\ Truthy(left_hand(res)) /\ ~Truthy(right_hand(res))
    /\ control_hand' = "left"
    /\ rotation_hand' = None
    /\ IF palm_faults(left_hand(res).landmark)
       THEN Raise
       ELSE Smoothing(update_scale_from_palm(left_hand(res).landmark),
                      target_rotation_x, target_rotation_y)

OnlyRight(res) ==
    /\ res # <<>>
    /\ ~Truthy(left_hand(res)) /\ Truthy(right_hand(res))
    /\ control_hand' = None
    /\ rotation_hand' = "right"
    /\ LET r == update_rotation_from_hand(right_hand(res).landmark)
       IN  Smoothing(target_scale, r.x, r.y)

\* Hands were reported, but neither left_hand nor right_hand is truthy:
\* the if/elif chain of lines 141-161 has no else.
NoBranch(res) ==
    /\ res # <<>>
    /\ ~Truthy(left_hand(res)) /\ ~Truthy(right_hand(res))
    /\ UNCHANGED <<control_hand, rotation_hand>>
    /\ Smoothing(target_scale, target_rotation_x, target_rotation_y)

\* NoHands putting the targets back to their defaults.
NoHandsResetsTargets(res) ==
    /\ res = <<>>
    /\ control_hand' = None
    /\ rotation_hand' = None
    /\ Smoothing(2 * ScaleUnit, 20 * Unit, 30 * Unit)

\* NoHands with the smoothing left inside the branch that saw hands.
NoHandsWithoutSmoothing(res) ==
    /\ res = <<>>
    /\ control_hand' = None
    /\ rotation_hand' = None
    /\ UNCHANGED numerics
    /\ pc' = pc

\* Lines 162-164: the detector reported nothing.
NoHands(res) ==
    /\ res = <<>>
    /\ control_hand' = None
    /\ rotation_hand' = None
    /\ Smoothing(target_scale, target_rotation_x, target_rotation_y)

process_hands(res) ==
    /\ pc = "loop"
    /\ results' = res
    /\ frames' = Min(frames + 1, MaxFrames)
    /\ tick' = 1 - tick
    /\ \/ BothHands(res)
       \/ OnlyLeft(res)
       \/ OnlyRight(res)
       \/ NoBranch(res)
       \/ NoHands(res)

Init ==
    /\ scale = 2 * ScaleUnit
    /\ target_scale = 2 * ScaleUnit
    /\ control_hand = None
    /\ rotation_hand = None
    /\ rotation_x = 20 * Unit
    /\ rotation_y = 30 * Unit
    /\ target_rotation_x = 20 * Unit
    /\ target_rotation_y = 30 * Unit
    /\ results = <<>>
    /\ pc = "loop"
    /\ frames = 0
    /\ tick = 0

\* One iteration of main's loop while the hands may be anything.
Frame == frames < MaxFrames /\ \E res \in DetectorOutputs : process_hands(res)

\* One iteration once the hands are lost.
LostFrame == frames >= MaxFrames /\ process_hands(<<>>)

Next == Frame \/ LostFrame

Spec == Init /\ [][Next]_vars

\* main calls process_hands in every iteration of `while running`.
LiveSpec == Init /\ [][Next]_vars /\ WF_vars(Next)

TypeOK ==
    /\ control_hand \in {None, "left"}
    /\ rotation_hand \in {None, "right"}
    /\ pc \in {"loop", "crashed"}
    /\ frames \in 0..MaxFrames
    /\ tick \in {0, 1}

(***************************************************************************)
(* Properties                                                              *)
(***************************************************************************)
\* The largest gap the rounded product (target - current) * smooth_factor
\* still rounds to zero: the resolution at which smoothing stops moving.
Resolution == (smooth_factor.den \div 2) \div smooth_factor.num

Gap(current, target) == target - current

LabelSet(res) == {res[i].label : i \in 1..Len(res)}

\* Every reported hand is a Left or Right hand that carries keypoints.
Recognised(res) ==
    \A i \in 1..Len(res) :
        /\ res[i].label \in {"Left", "Right"}
        /\ Len(landmark(res[i].hand_landmarks)) > 0

\* C1: a frame without a usable Left hand leaves target_scale as it was, and
\* a frame without a usable Right hand leaves target_rotation_x and
\* target_rotation_y as they were, whatever the earlier frames did; no frame
\* puts a target back to its initial default.
C1_Freeze ==
    [][/\ ~Truthy(left_hand(results')) => target_scale' = target_scale
       /\ ~Truthy(right_hand(results')) =>
            /\ target_rotation_x' = target_rotation_x
            /\ target_rotation_y' = target_rotation_y]_vars

\* A Right hand alone was processed and the scale target still holds the
\* value an earlier Left hand gave it, not the default.
C1_Witness ==
    /\ pc = "loop"
    /\ LabelSet(results) = {"Right"}
    /\ Truthy(right_hand(results))
    /\ target_scale # 2 * ScaleUnit

\* C2: after process_hands on a frame of recognised hands the roles follow
\* the precedence table: {Left, Right} -> (left, right), {Left} ->
\* (left, none), {Right} -> (none, right), {} -> (none, none).
C2_RolePrecedence ==
    (frames > 0 /\ Recognised(results)) =>
        LET labels == LabelSet(results)
        IN  /\ labels = {"Left", "Right"} =>
                 control_hand = "left" /\ rotation_hand = "right"
            /\ labels = {"Left"} =>
                 control_hand = "left" /\ rotation_hand = None
            /\ labels = {"Right"} =>
                 control_hand = None /\ rotation_hand = "right"
            /\ labels = {} =>
                 control_hand = None /\ rotation_hand = None

\* A Left hand alone took the size role and no rotation role is assigned.
C2_Witness ==
    /\ frames = MaxFrames
    /\ Recognised(results)
    /\ LabelSet(results) = {"Left"}
    /\ control_hand = "left"
    /\ rotation_hand = None
    /\ pc = "loop"

\* C3: after every process_hands call the roles are those of the current
\* frame's hands alone: a role is assigned exactly when its hand is usable
\* in the frame just processed, for every detector output.
C3_RolesFromCurrentFrame ==
    frames > 0 =>
        /\ control_hand = (IF Truthy(left_hand(results)) THEN "left" ELSE None)
        /\ rotation_hand = (IF Truthy(right_hand(results)) THEN "right" ELSE None)

\* C4: every call that does not fault smooths each of scale, rotation_x and
\* rotation_y once, toward the target as this frame left it; and from the
\* initial state a frame with the half-open Left hand and the Right hand at
\* (0.75, 0.5) gives targets 2.75, 0, 90 and values 2.1125, 17.0, 39.0.
C4_CycleOrder ==
    [][/\ pc' = "loop" =>
            /\ scale' = smooth_value(scale, target_scale', smooth_factor)
            /\ rotation_x' = smooth_value(rotation_x, target_rotation_x', smooth_factor)
            /\ rotation_y' = smooth_value(rotation_y, target_rotation_y', smooth_factor)
       /\ (frames = 0 /\ results' = <<Hand("Left", "HalfOpen"), Hand("Right", "AtRight")>>) =>
            /\ target_scale' = (275 * ScaleUnit) \div 100
            /\ target_rotation_x' = 0
            /\ target_rotation_y' = 90 * Unit
            /\ scale' = (21125 * ScaleUnit) \div 10000
            /\ rotation_x' = 17 * Unit
            /\ rotation_y' = 39 * Unit]_vars

\* The first frame showed both hands and moved all three values.
C4_Witness ==
    /\ frames = 1
    /\ results = <<Hand("Left", "HalfOpen"), Hand("Right", "AtRight")>>
    /\ scale = (21125 * ScaleUnit) \div 10000
    /\ rotation_y = 39 * Unit

\* One smoothing step under a constant target, as claimed: the gap is
\* multiplied by exactly (1 - smooth_factor), keeps its sign and, when it is
\* not zero, shrinks.
ExactStep(current, target, current2) ==
    LET g == Gap(current, target)
        h == Gap(current2, target)
    IN  /\ h * smooth_factor.den = g * (smooth_factor.den - smooth_factor.num)
        /\ g * h >= 0
        /\ g # 0 => Abs(h) < Abs(g)

\* One smoothing step under a constant target, as computed: the gap is
\* multiplied by (1 - smooth_factor) up to the rounding of the product (half
\* a unit of resolution), keeps its sign, never grows, and shrinks while it
\* is larger than the resolution.
RoundedStep(current, target, current2) ==
    LET g == Gap(current, target)
        h == Gap(current2, target)
        err == h * smooth_factor.den - g * (smooth_factor.den - smooth_factor.num)
    IN  /\ 2 * Abs(err) <= smooth_factor.den
        /\ g > 0 => h > 0
        /\ g < 0 => h < 0
        /\ g = 0 => h = 0
        /\ Abs(h) <= Abs(g)
        /\ Abs(g) > Resolution => Abs(h) < Abs(g)

\* C5 as stated: under a constant target each step multiplies the gap by
\* exactly (1 - smooth_factor), never overshoots, and strictly shrinks a
\* nonzero gap; for scale, rotation_x and rotation_y.
C5_ExactShrink ==
    [][pc' = "loop" =>
        /\ target_scale' = target_scale =>
             ExactStep(scale, target_scale, scale')
        /\ target_rotation_x' = target_rotation_x =>
             ExactStep(rotation_x, target_rotation_x, rotation_x')
        /\ target_rotation_y' = target_rotation_y =>
             ExactStep(rotation_y, target_rotation_y, rotation_y')]_vars

\* C5 amended: under a constant target each step multiplies the gap by
\* (1 - smooth_factor) up to rounding, never overshoots, never grows the
\* gap, and strictly shrinks it while it exceeds the resolution.
C5_RoundedShrink ==
    [][pc' = "loop" =>
        /\ target_scale' = target_scale =>
             RoundedStep(scale, target_scale, scale')
        /\ target_rotation_x' = target_rotation_x =>
             RoundedStep(rotation_x, target_rotation_x, rotation_x')
        /\ target_rotation_y' = target_rotation_y =>
             RoundedStep(rotation_y, target_rotation_y, rotation_y')]_vars

\* The hands are lost and the scale rests a nonzero gap short of its target.
C5_Witness ==
    /\ pc = "loop"
    /\ frames = MaxFrames
    /\ results = <<>>
    /\ scale # target_scale
    /\ Abs(Gap(scale, target_scale)) <= Resolution

Within(eps) ==
    /\ Abs(Gap(scale, target_scale)) < eps
    /\ Abs(Gap(rotation_x, target_rotation_x)) < eps
    /\ Abs(Gap(rotation_y, target_rotation_y)) < eps

\* C6 as stated: once the targets stay constant and frames keep being
\* processed, for any epsilon > 0 every current value eventually is, and
\* stays, within epsilon of its target.
C6_AnyEpsilon ==
    \A eps \in 1..(Resolution + 1) : <>[](pc = "crashed" \/ Within(eps))

\* C6 amended: once the targets stay constant and frames keep being
\* processed, every current value eventually is, and stays, within epsilon
\* of its target for any epsilon above the resolution.
C6_Convergence == <>[](pc = "crashed" \/ Within(Resolution + 1))

\* The hands are lost and the yaw has come to rest next to a target a Right
\* hand set.
C6_Witness ==
    /\ pc = "loop"
    /\ frames = MaxFrames
    /\ results = <<>>
    /\ target_rotation_y # 30 * Unit
    /\ rotation_y # target_rotation_y
    /\ Within(Resolution + 1)

\* C7: target_scale always lies within [scale_min, scale_max]; a Left hand of
\* openness 0 sets it to scale_min and one of openness 1 to scale_max.
C7_TargetScaleInRange ==
    /\ scale_min <= target_scale /\ target_scale <= scale_max
    /\ (frames > 0 /\ pc = "loop" /\ Truthy(left_hand(results))) =>
         LET openness == calculate_palm_openness(left_hand(results).landmark)
         IN  /\ openness = 0 => target_scale = scale_min
             /\ openness = OpenUnit => target_scale = scale_max

\* A Left hand spread beyond max_distance put the target at scale_max.
C7_Witness ==
    /\ pc = "loop"
    /\ frames > 0
    /\ results = <<Hand("Left", "Spread")>>
    /\ target_scale = scale_max

Malformed(h) == h.some /\ Len(h.landmark) # Topology

\* C8: a frame whose Left or Right hand has a keypoint count other than the
\* topology's ends in a fault and never in a target update.
C8_MalformedHandFaults ==
    (frames > 0 /\ (Malformed(left_hand(results)) \/ Malformed(right_hand(results)))) =>
        pc = "crashed"

\* C9: the displayed scale always lies within [scale_min, scale_max].
C9_ScaleInRange == scale_min <= scale /\ scale <= scale_max

\* The scale has come to rest at the upper bound's resolution.
C9_Witness ==
    /\ pc = "loop"
    /\ target_scale = scale_max
    /\ scale < scale_max
    /\ scale_max - scale <= Resolution

\* C10: a call that faults on a Left hand with too few keypoints changes
\* none of target_scale, target_rotation_x, target_rotation_y, scale,
\* rotation_x, rotation_y, also with a well-formed Right hand in the frame.
C10_FaultKeepsNumerics ==
    [][pc' = "crashed" =>
        /\ palm_faults(left_hand(results').landmark)
        /\ UNCHANGED numerics]_vars

\* The call faulted although the frame's Right hand asked for other rotation
\* targets than the ones kept.
C10_Witness ==
    /\ pc = "crashed"
    /\ Truthy(right_hand(results))
    /\ ~Malformed(right_hand(results))
    /\ update_rotation_from_hand(right_hand(results).landmark)
         # [x |-> target_rotation_x, y |-> target_rotation_y]
====
